---- MODULE Spec2Model ----
(***************************************************************************)
(* A model of matsubara/correlation.py: the exponential sum, the           *)
(* bi-exponential fit, the bath correlation integrator, the Matsubara and  *)
(* non-Matsubara exponent extractors and the spectrum assembler.           *)
(*                                                                         *)
(* Numbers are exact.  A real or complex number that the code computes     *)
(* from its arguments by + - * / is a (complex) rational.  e^k is kept as  *)
(* a power of the transcendental e, coth(x) as an atom named by x, pi as a *)
(* unit, and a quad() integral as a term named by its kernel, limits and   *)
(* time.  sqrt is taken only where it is exact.  The external solvers      *)
(* (scipy's least_squares and quad) are modelled by their contracts.       *)
(***************************************************************************)
EXTENDS Integers, Sequences, FiniteSets, TLC

\* ---------------------------------------------------------------- bounds
MaxTerms == 2
MaxTimes == 2
MaxNexp == 4
MaxBeta == 2
MaxCoup == 2
MaxFreq == 5
MaxBroad == 8

\* -------------------------------------------------------- exact rationals
Abs(n) == IF n < 0 THEN -n ELSE n

RECURSIVE GCD(_, _)
GCD(m, n) == IF n = 0 THEN m ELSE GCD(n, m % n)

\* the rational n/d (d # 0) in lowest terms with a positive denominator
Rat(n, d) ==
    LET g == GCD(Abs(n), Abs(d))
        s == IF d < 0 THEN -1 ELSE 1
    IN  <<(s * n) \div g, (s * d) \div g>>

RInt(n) == <<n, 1>>
RAdd(x, y) == Rat(x[1] * y[2] + y[1] * x[2], x[2] * y[2])
RNeg(x) == <<-x[1], x[2]>>
RSub(x, y) == RAdd(x, RNeg(y))
RMul(x, y) == Rat(x[1] * y[1], x[2] * y[2])
RDiv(x, y) == Rat(x[1] * y[2], x[2] * y[1])
RLe(x, y) == x[1] * y[2] <= y[1] * x[2]
RZero == RInt(0)

\* ------------------------------------------------- exact complex rationals
Cx(re, im) == [re |-> re, im |-> im]
CReal(r) == Cx(r, RZero)
CInt(n) == CReal(RInt(n))
CI == Cx(RZero, RInt(1))
CZero == CInt(0)
CAdd(x, y) == Cx(RAdd(x.re, y.re), RAdd(x.im, y.im))
CNeg(x) == Cx(RNeg(x.re), RNeg(x.im))
CSub(x, y) == CAdd(x, CNeg(y))
CMul(x, y) == Cx(RSub(RMul(x.re, y.re), RMul(x.im, y.im)),
                 RAdd(RMul(x.re, y.im), RMul(x.im, y.re)))
conjugate(x) == Cx(x.re, RNeg(x.im))
CDiv(x, y) ==
    LET n == CMul(x, conjugate(y))
        d == RAdd(RMul(y.re, y.re), RMul(y.im, y.im))
    IN  Cx(RDiv(n.re, d), RDiv(n.im, d))

\* ------------------------------------------------------------- sequences
SeqsOfLen(S, lo, hi) == UNION {[1..k -> S] : k \in lo..hi}

\* --------------------------------------- sums of powers of e (np.exp values)
\* A value c_1 e^{k_1} + ... + c_m e^{k_m}, k_j distinct integers, c_j # 0,
\* is the set of its <<k_j, c_j>>.  e is transcendental, so two values are
\* equal exactly when their sets are.
Coef(p, k) == IF \E m \in p : m[1] = k THEN (CHOOSE m \in p : m[1] = k)[2] ELSE 0
Expos(p) == {m[1] : m \in p}
\* np.exp(k) for an integer k
exp(k) == {<<k, 1>>}
\* np.multiply(c, p) for an integer c
multiply(c, p) == {<<m[1], c * m[2]>> : m \in {q \in p : c * q[2] # 0}}
\* p + q
EAdd(p, q) ==
    {<<k, Coef(p, k) + Coef(q, k)>> :
        k \in {j \in Expos(p) \cup Expos(q) : Coef(p, j) + Coef(q, j) # 0}}

\* ------------------------------------------------------ sum_of_exponentials
CoefVals == {-1, 1, 2}
RateVals == {-1, 0, 1}
TimeVals == {0, 1}

\* line 32-33: tlist = np.array(tlist); y = ck[0]*exp(vk[0]*tlist)
sum_first(ck, vk, tlist) ==
    [j \in 1..Len(tlist) |-> multiply(ck[1], exp(vk[1] * tlist[j]))]

\* line 35 with = for +=: the term replaces the sum
sum_term_assign(y, ck, vk, tlist, q) ==
    [j \in 1..Len(tlist) |-> multiply(ck[q], exp(vk[q] * tlist[j]))]

\* line 35, iteration p (0-based p = q-1): y += ck[p]*exp(vk[p]*tlist)
sum_term(y, ck, vk, tlist, q) ==
    [j \in 1..Len(tlist) |-> EAdd(y[j], multiply(ck[q], exp(vk[q] * tlist[j])))]

RECURSIVE sum_loop(_, _, _, _, _)
sum_loop(y, ck, vk, tlist, q) ==
    IF q > Len(ck) THEN y
    ELSE sum_loop(sum_term(y, ck, vk, tlist, q), ck, vk, tlist, q + 1)

\* the whole function, run alone
sum_of_exponentials(ck, vk, tlist) ==
    sum_loop(sum_first(ck, vk, tlist), ck, vk, tlist, 2)

\* ------------------------------------------------------------ bath_correlation
\* The value quad(integrand, w_start, w_cut, args=(t,))[0]: the integral is
\* named by what determines it.  integrandR reads spectral_density, params
\* and beta; integrandI reads spectral_density and params.
quad(kernel, a, b, t, beta) ==
    [kernel |-> kernel, a |-> a, b |-> b, t |-> t,
     beta |-> IF kernel = "integrandR" THEN beta ELSE 0]

\* line 183
w_start == 0

CutVals == {5, 10}

\* line 175 without the test
callable_unchecked(f) == TRUE

\* line 175: callable(spectral_density)
callable(f) == f.callable

\* lines 191-192 with the real kernel integrated twice
bath_sample_same_kernel(l, i, beta, w_cut) ==
    [corrR |-> Append(l.corrR, quad("integrandR", w_start, w_cut, i, beta)),
     corrI |-> Append(l.corrI, quad("integrandR", w_start, w_cut, i, beta)),
     k |-> l.k + 1,
     quads |-> << [f |-> "quad", kernel |-> "integrandR", a |-> w_start,
                   b |-> w_cut, t |-> i],
                  [f |-> "quad", kernel |-> "integrandR", a |-> w_start,
                   b |-> w_cut, t |-> i] >>]

\* lines 191-192: one pass of the loop, for the time i; quads are the
\* integrations it runs, in order
bath_sample(l, i, beta, w_cut) ==
    [corrR |-> Append(l.corrR, quad("integrandR", w_start, w_cut, i, beta)),
     corrI |-> Append(l.corrI, quad("integrandI", w_start, w_cut, i, beta)),
     k |-> l.k + 1,
     quads |-> << [f |-> "quad", kernel |-> "integrandR", a |-> w_start,
                   b |-> w_cut, t |-> i],
                  [f |-> "quad", kernel |-> "integrandI", a |-> w_start,
                   b |-> w_cut, t |-> i] >>]

\* line 193: (np.array(corrR) + 1j*np.array(corrI))/np.pi
bath_corr(l) ==
    [j \in 1..Len(l.corrR) |-> [re |-> l.corrR[j], im |-> l.corrI[j], over |-> "pi"]]

\* ---------------------------------------------------------------- the poles
IsSquare(x) == \E r \in 0..x : r * r = x
ISqrt(x) == CHOOSE r \in 0..x : r * r = x

\* (cav_freq, cav_broad) with w0^2 - (gamma/2)^2 the square of a positive
\* rational, where np.sqrt is exact
Poles ==
    {p \in (1..MaxFreq) \X (1..MaxBroad) :
        /\ 4 * p[1] * p[1] - p[2] * p[2] > 0
        /\ IsSquare(4 * p[1] * p[1] - p[2] * p[2])}

\* omega = np.sqrt(w0**2 - (gamma/2)**2)
sqrt_omega(w0, gamma) == Rat(ISqrt(4 * w0 * w0 - gamma * gamma), 2)

\* a = omega + 1j*gamma/2.
pole_a(w0, gamma) == Cx(sqrt_omega(w0, gamma), Rat(gamma, 2))

\* inverse temperatures: a positive number, or np.inf
BetaFin(n) == [inf |-> FALSE, val |-> n]
BetaInf == [inf |-> TRUE, val |-> 0]

\* ------------------------------------------- values linear in coth(x) atoms
\* c_0 + c_1 coth(x_1) + ... with complex rational c_j # 0 is the set of its
\* <<atom, c_j>>; two values with the same set are the same number.
One == [coth |-> FALSE, of |-> CZero]
CothAtom(x) == [coth |-> TRUE, of |-> x]
LCoef(p, a) == IF \E m \in p : m[1] = a THEN (CHOOSE m \in p : m[1] = a)[2] ELSE CZero
LAtoms(p) == {m[1] : m \in p}
LConst(c) == IF c = CZero THEN {} ELSE {<<One, c>>}
\* coth(x) = 1/np.tanh(x)
coth(x) == {<<CothAtom(x), CInt(1)>>}
LScale(c, p) == {<<m[1], CMul(c, m[2])>> : m \in {q \in p : CMul(c, q[2]) # CZero}}
LNeg(p) == LScale(CInt(-1), p)
LAdd(p, q) ==
    {<<a, CAdd(LCoef(p, a), LCoef(q, a))>> :
        a \in {b \in LAtoms(p) \cup LAtoms(q) : CAdd(LCoef(p, b), LCoef(q, b)) # CZero}}
\* the product of a value free of coth (a complex rational c) and a value
LTimes(c, p) == LScale(c, p)

\* ------------------------------------------------------ nonmatsubara_exponents
\* beta*(x/2)
half_beta(beta, x) == CMul(CInt(beta), CDiv(x, CInt(2)))

\* line 253-256 without the branch: coth is evaluated whatever beta is
nonmatsubara_ck_no_branch(beta, a, aa) ==
    [ck |-> <<LAdd(coth(half_beta(beta.val, a)), LConst(CInt(-1))),
              LAdd(coth(half_beta(beta.val, aa)), LConst(CInt(1)))>>,
     evaluated |-> << [f |-> "coth", x |-> half_beta(beta.val, a)],
                      [f |-> "coth", x |-> half_beta(beta.val, aa)] >>]

\* line 253-256: the branch on beta; evaluated lists the coth evaluations
nonmatsubara_ck(beta, a, aa) ==
    IF beta.inf
    THEN [ck |-> <<LConst(CInt(0)), LConst(CInt(2))>>, evaluated |-> <<>>]
    ELSE [ck |-> <<LAdd(coth(half_beta(beta.val, a)), LConst(CInt(-1))),
                   LAdd(coth(half_beta(beta.val, aa)), LConst(CInt(1)))>>,
          evaluated |-> << [f |-> "coth", x |-> half_beta(beta.val, a)],
                           [f |-> "coth", x |-> half_beta(beta.val, aa)] >>]

nonmatsubara_exponents(coup_strength, cav_broad, cav_freq, beta) ==
    LET w0 == cav_freq
        lam == coup_strength
        gamma == cav_broad
        omega == sqrt_omega(w0, gamma)
        a == pole_a(w0, gamma)
        aa == conjugate(a)
        coeff == RDiv(RInt(lam * lam), RMul(RInt(4), omega))
        vk == <<CMul(CI, a), CMul(CNeg(CI), aa)>>
        b == nonmatsubara_ck(beta, a, aa)
    IN  [ck |-> [j \in 1..Len(b.ck) |-> LScale(CReal(coeff), b.ck[j])],
         vk |-> vk,
         calls |-> b.evaluated]

\* --------------------------------------------------------- matsubara_exponents
\* range(lo, hi + 1): the upper end included
range_inclusive(lo, hi) == [j \in 1..(IF hi >= lo THEN hi - lo + 1 ELSE 0) |-> lo + j - 1]

\* range(lo, hi)
range(lo, hi) == [j \in 1..(IF hi > lo THEN hi - lo ELSE 0) |-> lo + j - 1]

\* c * pi^pw, c rational
PiMono(c, pw) == [c |-> c, pw |-> pw]
PiMonoMul(x, y) == PiMono(RMul(x.c, y.c), x.pw + y.pw)

\* (2*np.pi*n/beta)**2, as the coefficients of pi^0, pi^1, pi^2
nu_squared(n, beta) ==
    <<CZero, CZero, CReal(RMul(Rat(2 * n, beta), Rat(2 * n, beta)))>>

\* the product of two polynomials in pi with three coefficients each
PiPolyMul(p, q) ==
    << CMul(p[1], q[1]),
       CAdd(CMul(p[1], q[2]), CMul(p[2], q[1])),
       CAdd(CAdd(CMul(p[1], q[3]), CMul(p[2], q[2])), CMul(p[3], q[1])),
       CAdd(CMul(p[2], q[3]), CMul(p[3], q[2])),
       CMul(p[3], q[3]) >>

PiPolyAddConst(c, p) == <<CAdd(c, p[1]), p[2], p[3]>>

matsubara_exponents(coup_strength, cav_broad, cav_freq, beta, N_exp) ==
    LET lam == coup_strength
        gamma == cav_broad
        w0 == cav_freq
        a == pole_a(w0, gamma)
        aa == conjugate(a)
        \* (-4*gamma*lam**2/np.pi)*((np.pi/beta)**2)
        coeff == PiMonoMul(PiMono(RInt(-4 * gamma * lam * lam), -1),
                           PiMonoMul(PiMono(Rat(1, beta), 1), PiMono(Rat(1, beta), 1)))
        ns == range(1, N_exp)
        vk == [j \in 1..Len(ns) |-> PiMono(Rat(-2 * ns[j], beta), 1)]
        ck == [j \in 1..Len(ns) |->
                 [num |-> PiMono(RInt(ns[j]), 0),
                  den |-> PiPolyMul(PiPolyAddConst(CMul(a, a), nu_squared(ns[j], beta)),
                                    PiPolyAddConst(CMul(aa, aa), nu_squared(ns[j], beta)))]]
    IN  [ck |-> [j \in 1..Len(ck) |->
                   [num |-> PiMonoMul(coeff, ck[j].num), den |-> ck[j].den]],
         vk |-> vk]

\* -------------------------------------------------------------- the spectrum
FreqVals == {-2, -1, 1, 2}

_S(w, coup_strength, cav_broad, cav_freq, beta) ==
    LET lam == coup_strength
        gamma == cav_broad
        w0 == cav_freq
        a == pole_a(w0, gamma)
        aa == conjugate(a)
        prefactor == CDiv(CInt(-(lam * lam) * gamma), CSub(CMul(a, a), CMul(aa, aa)))
        t1 == LTimes(CDiv(a, CSub(CMul(a, a), CInt(w * w))), coth(half_beta(beta, a)))
        t2 == LTimes(CDiv(aa, CSub(CMul(aa, aa), CInt(w * w))), coth(half_beta(beta, aa)))
    IN  LScale(prefactor, LAdd(t1, LNeg(t2)))

_A(w, coup_strength, cav_broad, cav_freq, beta) ==
    LET lam == coup_strength
        gamma == cav_broad
        w0 == cav_freq
        a == pole_a(w0, gamma)
        aa == conjugate(a)
        prefactor == CInt(lam * lam * gamma)
        t1 == CDiv(CInt(w), CMul(CSub(CMul(a, a), CInt(w * w)),
                                 CSub(CMul(aa, aa), CInt(w * w))))
    IN  CMul(prefactor, t1)

\* line 459 with the sign of _S lost
spectrum_matsubara_plus_S(w, coup_strength, cav_broad, cav_freq, beta) ==
    LAdd(_S(w, coup_strength, cav_broad, cav_freq, beta),
         LTimes(_A(w, coup_strength, cav_broad, cav_freq, beta),
                coth(CReal(Rat(beta * w, 2)))))

spectrum_matsubara(w, coup_strength, cav_broad, cav_freq, beta) ==
    LAdd(LNeg(_S(w, coup_strength, cav_broad, cav_freq, beta)),
         LTimes(_A(w, coup_strength, cav_broad, cav_freq, beta),
                coth(CReal(Rat(beta * w, 2)))))

spectrum_non_matsubara(w, coup_strength, cav_broad, cav_freq, beta) ==
    LAdd(_S(w, coup_strength, cav_broad, cav_freq, beta),
         LConst(_A(w, coup_strength, cav_broad, cav_freq, beta)))

spectrum(w, coup_strength, cav_broad, cav_freq, beta) ==
    LAdd(spectrum_matsubara(w, coup_strength, cav_broad, cav_freq, beta),
         spectrum_non_matsubara(w, coup_strength, cav_broad, cav_freq, beta))

\* ---------------------------------------------------------------- biexp_fit
\* a bound: a rational, -np.inf (inf = -1) or np.inf (inf = 1)
Fin(r) == [inf |-> 0, val |-> r]
PosInf == [inf |-> 1, val |-> RZero]
NegInf == [inf |-> -1, val |-> RZero]
ExtLe(x, y) ==
    \/ x.inf = -1
    \/ y.inf = 1
    \/ x.inf = 0 /\ y.inf = 0 /\ RLe(x.val, y.val)

\* line 40-42: the defaults of the signature
default_ck_guess == <<Rat(1, 10), Rat(1, 2)>>
default_vk_guess == <<Rat(-1, 2), Rat(-1, 10)>>
default_bounds ==
    [lb |-> <<Fin(RZero), NegInf, Fin(RZero), NegInf>>,
     ub |-> <<PosInf, Fin(RZero), PosInf, Fin(RZero)>>]

\* line 72: np.min(ydata)
RECURSIVE np_min(_)
np_min(ydata) ==
    IF Len(ydata) = 1 THEN ydata[1]
    ELSE LET m == np_min(Tail(ydata)) IN IF ydata[1] < m THEN ydata[1] ELSE m

\* line 73: ydata/mats_min; a division by 0 leaves inf or nan entries
biexp_data(ydata, mats_min) ==
    IF mats_min = 0
    THEN [finite |-> FALSE, y |-> <<>>]
    ELSE [finite |-> TRUE, y |-> [j \in 1..Len(ydata) |-> Rat(ydata[j], mats_min)]]

\* line 75
biexp_x0 == <<Rat(1, 2), RInt(-1), Rat(1, 2), RInt(-1)>>

\* line 77-78: the call of least_squares.  No method is passed, so the solver
\* runs its own default method, 'trf'.
biexp_solver_call(tlist, ydata, ck_guess, vk_guess, bounds, method, loss) ==
    [f |-> "least_squares",
     x0 |-> biexp_x0,
     bounds |-> bounds,
     method |-> "trf",
     loss |-> loss,
     t |-> tlist,
     y |-> biexp_data(ydata, np_min(ydata))]

\* line 79-82 unpacking params.x as [ck1, ck2, vk1, vk2], the order the
\* comment of line 76 gives
biexp_result_comment_order(mats_min, x) ==
    [ck |-> <<RMul(RInt(mats_min), x[1]), RMul(RInt(mats_min), x[2])>>,
     vk |-> <<x[3], x[4]>>]

\* line 79-82
biexp_result(mats_min, x) ==
    [ck |-> <<RMul(RInt(mats_min), x[1]), RMul(RInt(mats_min), x[3])>>,
     vk |-> <<x[2], x[4]>>]

\* least_squares, by its contract: it raises ValueError when x0 lies outside
\* the bounds or the residuals at x0 are not finite, and otherwise returns
\* some x within the bounds.
in_bounds(x, bounds) ==
    \A k \in 1..4 : ExtLe(bounds.lb[k], Fin(x[k])) /\ ExtLe(Fin(x[k]), bounds.ub[k])

least_squares_raises(c) == ~c.y.finite \/ ~in_bounds(c.x0, c.bounds)

SolverGrid == {RInt(-1), RInt(0), RInt(1)}

least_squares_x(c) == {x \in [1..4 -> SolverGrid] : in_bounds(x, c.bounds)}

YVals == {-2, 0, 1}
GuessVals ==
    {[ck |-> default_ck_guess, vk |-> default_vk_guess],
     [ck |-> <<RInt(1), RInt(1)>>, vk |-> <<RInt(-1), RInt(0)>>]}
BoundVals ==
    {default_bounds,
     [lb |-> <<Fin(RInt(-1)), Fin(RInt(-2)), Fin(RInt(-1)), Fin(RInt(-2))>>,
      ub |-> <<Fin(RInt(1)), Fin(RInt(2)), Fin(RInt(1)), Fin(RInt(2))>>],
     [lb |-> <<Fin(RInt(1)), NegInf, Fin(RInt(1)), NegInf>>,
      ub |-> <<PosInf, Fin(RZero), PosInf, Fin(RZero)>>]}
MethodVals == {"trf", "dogbox"}
LossVals == {"cauchy", "linear"}

\* One call at a time: the function running, where it is, its arguments, its
\* locals, what it returned or raised, and the calls it made to scipy and coth.
VARIABLES fn, pc, args, loc, ret, err, calls

\* Two threads calling at once: the caller's objects and the default lists of
\* biexp_fit's signature (heap), their values before the calls (before), and
\* each thread's frame (th).
VARIABLES heap, before, th

seqvars == <<fn, pc, args, loc, ret, err, calls>>
concvars == <<heap, before, th>>

vars == <<fn, pc, args, loc, ret, err, calls, heap, before, th>>

NoValue == <<>>

Init ==
    /\ fn = "none"
    /\ pc = "idle"
    /\ args = NoValue
    /\ loc = NoValue
    /\ ret = NoValue
    /\ err = "none"
    /\ calls = <<>>
    /\ heap = NoValue
    /\ before = NoValue
    /\ th = NoValue

CallSumOfExponentials ==
    /\ pc = "idle"
    /\ \E n \in 1..MaxTerms :
       \E ck \in [1..n -> CoefVals], vk \in [1..n -> RateVals],
          tlist \in SeqsOfLen(TimeVals, 0, MaxTimes) :
          /\ args' = [ck |-> ck, vk |-> vk, tlist |-> tlist]
          /\ loc' = [y |-> sum_first(ck, vk, tlist), p |-> 2]
    /\ fn' = "sum_of_exponentials"
    /\ pc' = "loop"
    /\ UNCHANGED <<ret, err, calls, heap, before, th>>

SumLoop ==
    /\ fn = "sum_of_exponentials"
    /\ pc = "loop"
    /\ loc.p <= Len(args.ck)
    /\ loc' = [y |-> sum_term(loc.y, args.ck, args.vk, args.tlist, loc.p),
               p |-> loc.p + 1]
    /\ UNCHANGED <<fn, pc, args, ret, err, calls, heap, before, th>>

SumReturn ==
    /\ fn = "sum_of_exponentials"
    /\ pc = "loop"
    /\ loc.p > Len(args.ck)
    /\ ret' = loc.y
    /\ pc' = "done"
    /\ UNCHANGED <<fn, args, loc, err, calls, heap, before, th>>

CallBiexpFit ==
    /\ pc = "idle"
    /\ \E ydata \in SeqsOfLen(YVals, 1, MaxTimes), g \in GuessVals, b \in BoundVals,
          m \in MethodVals, l \in LossVals :
          LET tlist == [j \in 1..Len(ydata) |-> j - 1] IN
          /\ args' = [tlist |-> tlist, ydata |-> ydata, ck_guess |-> g.ck,
                      vk_guess |-> g.vk, bounds |-> b, method |-> m, loss |-> l]
          /\ loc' = [mats_min |-> np_min(ydata), x |-> <<>>]
          /\ calls' = <<biexp_solver_call(tlist, ydata, g.ck, g.vk, b, m, l)>>
    /\ fn' = "biexp_fit"
    /\ pc' = "solving"
    /\ UNCHANGED <<ret, err, heap, before, th>>

BiexpFitSolved ==
    /\ fn = "biexp_fit"
    /\ pc = "solving"
    /\ ~least_squares_raises(calls[1])
    /\ \E x \in least_squares_x(calls[1]) :
          /\ loc' = [loc EXCEPT !.x = x]
          /\ ret' = biexp_result(loc.mats_min, x)
    /\ pc' = "done"
    /\ UNCHANGED <<fn, args, err, calls, heap, before, th>>

BiexpFitSolverError ==
    /\ fn = "biexp_fit"
    /\ pc = "solving"
    /\ least_squares_raises(calls[1])
    /\ pc' = "raised"
    /\ err' = "ValueError"
    /\ UNCHANGED <<fn, args, loc, ret, calls, heap, before, th>>

CallBathCorrelation ==
    /\ pc = "idle"
    /\ \E c \in BOOLEAN, tlist \in SeqsOfLen(TimeVals, 0, MaxTimes),
          beta \in 1..MaxBeta, w_cut \in CutVals :
          args' = [spectral_density |-> [callable |-> c], tlist |-> tlist,
                   params |-> <<"eta">>, beta |-> beta, w_cut |-> w_cut]
    /\ fn' = "bath_correlation"
    /\ pc' = "entry"
    /\ UNCHANGED <<loc, ret, err, calls, heap, before, th>>

\* line 175-177
BathRaise ==
    /\ fn = "bath_correlation"
    /\ pc = "entry"
    /\ ~callable(args.spectral_density)
    /\ pc' = "raised"
    /\ err' = "TypeError"
    /\ UNCHANGED <<fn, args, loc, ret, calls, heap, before, th>>

\* line 179-188
BathBegin ==
    /\ fn = "bath_correlation"
    /\ pc = "entry"
    /\ callable(args.spectral_density)
    /\ loc' = [corrR |-> <<>>, corrI |-> <<>>, k |-> 1, quads |-> <<>>]
    /\ pc' = "loop"
    /\ UNCHANGED <<fn, args, ret, err, calls, heap, before, th>>

\* line 190-192
BathLoop ==
    /\ fn = "bath_correlation"
    /\ pc = "loop"
    /\ loc.k <= Len(args.tlist)
    /\ loc' = bath_sample(loc, args.tlist[loc.k], args.beta, args.w_cut)
    /\ calls' = calls \o loc'.quads
    /\ UNCHANGED <<fn, pc, args, ret, err, heap, before, th>>

\* line 193-194
BathReturn ==
    /\ fn = "bath_correlation"
    /\ pc = "loop"
    /\ loc.k > Len(args.tlist)
    /\ ret' = bath_corr(loc)
    /\ pc' = "done"
    /\ UNCHANGED <<fn, args, loc, err, calls, heap, before, th>>

CallNonmatsubaraExponents ==
    /\ pc = "idle"
    /\ \E lam \in 1..MaxCoup, p \in Poles,
          beta \in {BetaInf} \cup {BetaFin(n) : n \in 1..MaxBeta} :
          LET r == nonmatsubara_exponents(lam, p[2], p[1], beta) IN
          /\ args' = [coup_strength |-> lam, cav_broad |-> p[2], cav_freq |-> p[1],
                      beta |-> beta]
          /\ ret' = [ck |-> r.ck, vk |-> r.vk]
          /\ calls' = r.calls
    /\ fn' = "nonmatsubara_exponents"
    /\ pc' = "done"
    /\ UNCHANGED <<loc, err, heap, before, th>>

CallMatsubaraExponents ==
    /\ pc = "idle"
    /\ \E lam \in 1..MaxCoup, p \in Poles, beta \in 1..MaxBeta, N_exp \in 0..MaxNexp :
          /\ args' = [coup_strength |-> lam, cav_broad |-> p[2], cav_freq |-> p[1],
                      beta |-> beta, N_exp |-> N_exp]
          /\ ret' = matsubara_exponents(lam, p[2], p[1], beta, N_exp)
    /\ fn' = "matsubara_exponents"
    /\ pc' = "done"
    /\ UNCHANGED <<loc, err, calls, heap, before, th>>

CallSpectrum ==
    /\ pc = "idle"
    /\ \E w \in FreqVals, lam \in 1..MaxCoup, p \in Poles, beta \in 1..MaxBeta :
          /\ args' = [w |-> w, coup_strength |-> lam, cav_broad |-> p[2],
                      cav_freq |-> p[1], beta |-> beta]
          /\ loc' = [matsubara |-> spectrum_matsubara(w, lam, p[2], p[1], beta),
                     non_matsubara |-> spectrum_non_matsubara(w, lam, p[2], p[1], beta)]
          /\ ret' = spectrum(w, lam, p[2], p[1], beta)
    /\ fn' = "spectrum"
    /\ pc' = "done"
    /\ UNCHANGED <<err, calls, heap, before, th>>

Finish ==
    /\ pc \in {"done", "raised"}
    /\ fn' = "none"
    /\ pc' = "idle"
    /\ args' = NoValue
    /\ loc' = NoValue
    /\ ret' = NoValue
    /\ err' = "none"
    /\ calls' = <<>>
    /\ UNCHANGED concvars

Next ==
    \/ CallSumOfExponentials
    \/ SumLoop
    \/ SumReturn
    \/ CallBiexpFit
    \/ BiexpFitSolved
    \/ BiexpFitSolverError
    \/ CallBathCorrelation
    \/ BathRaise
    \/ BathBegin
    \/ BathLoop
    \/ BathReturn
    \/ CallNonmatsubaraExponents
    \/ CallMatsubaraExponents
    \/ CallSpectrum
    \/ Finish

Spec == Init /\ [][Next]_vars

\* ------------------------------------------------------------ concurrent calls
\* Two threads call sum_of_exponentials and biexp_fit on the same caller
\* objects.  A step of a call takes the heap and the thread's frame and gives
\* the heap and the frame after it: what it reads of the caller's objects it
\* reads from the heap at that step.
Threads == {1, 2}

ConcCoefVals == {1, 2}
ConcYVals == {-2, 4}

IdleFrame ==
    [fn |-> "none", pc |-> "idle", tlist |-> <<>>, y |-> <<>>, p |-> 0,
     mats_min |-> 0, call |-> <<>>, x |-> <<>>, ret |-> <<>>]

\* line 32-33: tlist = np.array(tlist) is the thread's own copy, y a new array
conc_sum_call(h, f) ==
    [heap |-> h,
     frame |-> [f EXCEPT !.fn = "sum_of_exponentials", !.pc = "loop",
                         !.tlist = h.tlist,
                         !.y = sum_first(h.ck, h.vk, h.tlist),
                         !.p = 2]]

\* line 34-35: ck[p] and vk[p] are read from the caller's objects
conc_sum_loop(h, f) ==
    [heap |-> h,
     frame |-> [f EXCEPT !.y = sum_term(f.y, h.ck, h.vk, f.tlist, f.p),
                         !.p = f.p + 1]]

\* line 36
conc_sum_return(h, f) ==
    [heap |-> h, frame |-> [f EXCEPT !.ret = f.y, !.pc = "done"]]

\* line 72-73 as ydata /= mats_min: the caller's array is normalised in place
conc_biexp_call_in_place(h, f) ==
    LET m == np_min(h.ydata) IN
    [heap |-> [h EXCEPT !.ydata = [j \in 1..Len(h.ydata) |-> h.ydata[j] \div m]],
     frame |-> [f EXCEPT !.fn = "biexp_fit", !.pc = "solving",
                         !.mats_min = m,
                         !.call = biexp_solver_call(h.tlist, h.ydata, h.ck_guess,
                                      h.vk_guess, default_bounds, "trf", "cauchy")]]

\* line 39-78, called with tlist and ydata alone: the guesses are the default
\* lists of the signature, data = ydata/mats_min is a new array
conc_biexp_call(h, f) ==
    [heap |-> h,
     frame |-> [f EXCEPT !.fn = "biexp_fit", !.pc = "solving",
                         !.mats_min = np_min(h.ydata),
                         !.call = biexp_solver_call(h.tlist, h.ydata, h.ck_guess,
                                      h.vk_guess, default_bounds, "trf", "cauchy")]]

\* line 79-82, the solver having returned x
conc_biexp_solved(h, f, x) ==
    [heap |-> h,
     frame |-> [f EXCEPT !.x = x, !.ret = biexp_result(f.mats_min, x), !.pc = "done"]]

ConcInit ==
    /\ fn = "none"
    /\ pc = "idle"
    /\ args = NoValue
    /\ loc = NoValue
    /\ ret = NoValue
    /\ err = "none"
    /\ calls = <<>>
    /\ \E ck \in [1..MaxTerms -> ConcCoefVals],
          tlist \in {<<1>>, [j \in 1..MaxTimes |-> j - 1]} :
       \E ydata \in [1..Len(tlist) -> ConcYVals] :
          heap = [ck |-> ck, vk |-> [j \in 1..MaxTerms |-> -ck[j]],
                  tlist |-> tlist, ydata |-> ydata,
                  ck_guess |-> default_ck_guess, vk_guess |-> default_vk_guess]
    /\ before = heap
    /\ th = [t \in Threads |-> IdleFrame]

Step(t, r) ==
    /\ heap' = r.heap
    /\ th' = [th EXCEPT ![t] = r.frame]
    /\ UNCHANGED <<before, seqvars>>

ThreadCallSum(t) ==
    /\ th[t].pc = "idle"
    /\ Step(t, conc_sum_call(heap, th[t]))

ThreadSumLoop(t) ==
    /\ th[t].fn = "sum_of_exponentials"
    /\ th[t].pc = "loop"
    /\ th[t].p <= Len(heap.ck)
    /\ Step(t, conc_sum_loop(heap, th[t]))

ThreadSumReturn(t) ==
    /\ th[t].fn = "sum_of_exponentials"
    /\ th[t].pc = "loop"
    /\ th[t].p > Len(heap.ck)
    /\ Step(t, conc_sum_return(heap, th[t]))

ThreadCallBiexp(t) ==
    /\ th[t].pc = "idle"
    /\ Step(t, conc_biexp_call(heap, th[t]))

ThreadBiexpSolved(t) ==
    /\ th[t].fn = "biexp_fit"
    /\ th[t].pc = "solving"
    /\ ~least_squares_raises(th[t].call)
    /\ \E x \in least_squares_x(th[t].call) :
          Step(t, conc_biexp_solved(heap, th[t], x))

ConcNext ==
    \E t \in Threads :
        \/ ThreadCallSum(t)
        \/ ThreadSumLoop(t)
        \/ ThreadSumReturn(t)
        \/ ThreadCallBiexp(t)
        \/ ThreadBiexpSolved(t)

SpecConc == ConcInit /\ [][ConcNext]_vars

\* ------------------------------------------------------------------ claims

\* C1: bath_correlation called with a spectral_density that is not callable
\* raises TypeError at once: no integration is run and nothing is returned.
C1_NotCallableRaisesTypeError ==
    (fn = "bath_correlation" /\ ~args.spectral_density.callable) =>
        /\ calls = <<>>
        /\ ret = NoValue
        /\ loc = NoValue
        /\ pc \in {"entry", "raised"}
        /\ pc = "raised" => err = "TypeError"

C1_Witness ==
    /\ fn = "bath_correlation"
    /\ pc = "raised"
    /\ err = "TypeError"
    /\ ~args.spectral_density.callable
    /\ Len(args.tlist) = MaxTimes

C3_NonMatsubaraBranches ==
    (fn = "nonmatsubara_exponents" /\ pc = "done") =>
        LET g == args.cav_broad
            w0 == args.cav_freq
            l == args.coup_strength
            r == ISqrt(4 * w0 * w0 - g * g)
            omega == Rat(r, 2)
            coeff == CReal(Rat(l * l, 2 * r))
            xa == Cx(Rat(args.beta.val * r, 4), Rat(args.beta.val * g, 4))
            xaa == Cx(Rat(args.beta.val * r, 4), Rat(-args.beta.val * g, 4))
        IN  /\ Len(ret.ck) = 2
            /\ Len(ret.vk) = 2
            /\ ret.vk = <<Cx(Rat(-g, 2), omega), Cx(Rat(-g, 2), RNeg(omega))>>
            /\ args.beta.inf =>
                  /\ ret.ck = <<{}, {<<One, CReal(Rat(l * l, r))>>}>>
                  /\ calls = <<>>
            /\ ~args.beta.inf =>
                  /\ ret.ck = << {<<CothAtom(xa), coeff>>, <<One, CNeg(coeff)>>},
                                 {<<CothAtom(xaa), coeff>>, <<One, coeff>>} >>

C3_Witness ==
    /\ fn = "nonmatsubara_exponents"
    /\ pc = "done"
    /\ args.beta.inf
    /\ ret.ck[1] = {}
    /\ ret.ck[2] # {}

\* C4: spectrum(w, ...) is spectrum_matsubara(w, ...) +
\* spectrum_non_matsubara(w, ...) at the same arguments; the S terms cancel
\* and the total is A*(1 + coth(beta*w/2)).
C4_SpectrumIsSumOfParts ==
    (fn = "spectrum" /\ pc = "done") =>
        LET w == args.w
            g == args.cav_broad
            w0 == args.cav_freq
            l == args.coup_strength
            u == 2 * w0 * w0 - g * g - 2 * w * w
            A == CReal(Rat(4 * l * l * g * w, u * u + (4 * w0 * w0 - g * g) * g * g))
        IN  /\ ret = LAdd(loc.matsubara, loc.non_matsubara)
            /\ ret = {<<One, A>>, <<CothAtom(CReal(Rat(args.beta * w, 2))), A>>}

C4_Witness ==
    /\ fn = "spectrum"
    /\ pc = "done"
    /\ \E m \in loc.matsubara : m[1].coth /\ m[1].of.im # RZero
    /\ \A m \in ret : m[1].of.im = RZero

RECURSIVE SumOver(_, _)
SumOver(ck, I) ==
    IF I = {} THEN 0
    ELSE LET i == CHOOSE i \in I : TRUE IN ck[i] + SumOver(ck, I \ {i})

\* C5: for ck and vk of length N >= 1 and tlist of length M,
\* sum_of_exponentials returns M entries in tlist order, entry j the sum of
\* all N terms ck[i]*exp(vk[i]*tlist[j]); at tlist = [0] the entry is sum(ck).
C5_SumOfAllTerms ==
    (fn = "sum_of_exponentials" /\ pc = "done") =>
        LET ck == args.ck
            vk == args.vk
            tlist == args.tlist
        IN  /\ Len(ret) = Len(tlist)
            /\ \A j \in 1..Len(tlist) :
                  \A k \in {vk[i] * tlist[j] : i \in 1..Len(ck)} \cup Expos(ret[j]) :
                      Coef(ret[j], k) =
                          SumOver(ck, {i \in 1..Len(ck) : vk[i] * tlist[j] = k})
            /\ tlist = <<0>> =>
                  /\ Coef(ret[1], 0) = SumOver(ck, 1..Len(ck))
                  /\ Expos(ret[1]) \subseteq {0}

C5_Witness ==
    /\ fn = "sum_of_exponentials"
    /\ pc = "done"
    /\ Len(args.ck) = MaxTerms
    /\ args.tlist = <<0>>
    /\ \E i \in 1..Len(args.vk) : args.vk[i] # 0
    /\ Coef(ret[1], 0) = 2 * MaxTerms

\* C6: every fit option passed to biexp_fit reaches the solver: the initial
\* guess is the caller's (ck_guess, vk_guess), in the parameter order
\* [c1, v1, c2, v2], and the solver runs with the caller's bounds, method
\* and loss.
C6_FitOptionsReachSolver ==
    (fn = "biexp_fit" /\ pc \in {"solving", "done", "raised"}) =>
        /\ Len(calls) = 1
        /\ calls[1].x0 = <<args.ck_guess[1], args.vk_guess[1],
                           args.ck_guess[2], args.vk_guess[2]>>
        /\ calls[1].bounds = args.bounds
        /\ calls[1].method = args.method
        /\ calls[1].loss = args.loss

C8_CallsDoNotInterfere ==
    /\ heap = before
    /\ \A t \in Threads :
          /\ (th[t].fn = "sum_of_exponentials" /\ th[t].pc = "done") =>
                th[t].ret = sum_of_exponentials(before.ck, before.vk, before.tlist)
          /\ (th[t].fn = "biexp_fit" /\ th[t].pc \in {"solving", "done"}) =>
                th[t].call = biexp_solver_call(before.tlist, before.ydata,
                                 default_ck_guess, default_vk_guess,
                                 default_bounds, "trf", "cauchy")
          /\ (th[t].fn = "biexp_fit" /\ th[t].pc = "done") =>
                th[t].ret = biexp_result(np_min(before.ydata), th[t].x)

C8_Witness ==
    /\ th[1].fn = "sum_of_exponentials"
    /\ th[1].pc = "loop"
    /\ th[1].p > 2
    /\ th[2].fn = "biexp_fit"
    /\ th[2].pc = "done"
    /\ Len(before.ydata) = MaxTimes
    /\ before.ydata[1] # before.ydata[MaxTimes]

\* C10: for a callable spectral density and tlist of length M,
\* bath_correlation runs two integrations per time (the real kernel, then the
\* imaginary kernel, both over [0, w_cut]), 2*M in all, and returns M values,
\* entry i being (real integral + i*imaginary integral)/pi for tlist[i] alone.
C10_TwoIntegrationsPerSample ==
    (fn = "bath_correlation" /\ args.spectral_density.callable) =>
        LET M == Len(args.tlist)
            done == IF pc = "entry" THEN 0
                    ELSE IF pc = "loop" THEN loc.k - 1 ELSE M
        IN  /\ Len(calls) = 2 * done
            /\ \A i \in 1..done :
                  /\ calls[2 * i - 1] = [f |-> "quad", kernel |-> "integrandR",
                                         a |-> 0, b |-> args.w_cut, t |-> args.tlist[i]]
                  /\ calls[2 * i] = [f |-> "quad", kernel |-> "integrandI",
                                     a |-> 0, b |-> args.w_cut, t |-> args.tlist[i]]
            /\ pc = "done" =>
                  /\ Len(ret) = M
                  /\ \A i \in 1..M :
                        ret[i] = [re |-> [kernel |-> "integrandR", a |-> 0,
                                          b |-> args.w_cut, t |-> args.tlist[i],
                                          beta |-> args.beta],
                                  im |-> [kernel |-> "integrandI", a |-> 0,
                                          b |-> args.w_cut, t |-> args.tlist[i],
                                          beta |-> 0],
                                  over |-> "pi"]

C10_Witness ==
    /\ fn = "bath_correlation"
    /\ pc = "done"
    /\ Len(args.tlist) = MaxTimes
    /\ args.tlist[1] # args.tlist[MaxTimes]
    /\ Len(calls) = 2 * MaxTimes

====
